---------------------------- MODULE Spec2Model ----------------------------
(***************************************************************************)
(* Model of the support behavior of neuz: the slot grid of the bot         *)
(* configuration (src-tauri/src/ipc/bot_config.rs) and the per-tick        *)
(* decision loop that uses it (src-tauri/src/behavior/support_behavior.rs).*)
(*                                                                         *)
(* Option<T> is modelled as a tuple: None is <<>>, Some(x) is <<x>>.       *)
(* An Instant is modelled by the value its elapsed().as_millis() returns,  *)
(* whole milliseconds since the instant was taken, because the code reads  *)
(* an Instant in no other way.  Elapse(self, d) lets d ms pass.  Ages      *)
(* saturate at AgeCap, which is larger than every duration the code        *)
(* compares an age with.                                                   *)
(***************************************************************************)
EXTENDS Integers, Sequences, FiniteSets, TLC

VARIABLES
    config,                    \* the BotConfig / SupportConfig handed to every call
    slots_usage_last_time,     \* SupportBehavior.slots_usage_last_time
    last_buff_usage,           \* SupportBehavior.last_buff_usage
    avoid_obstacle_direction,  \* SupportBehavior.avoid_obstacle_direction
    last_far_from_target,      \* SupportBehavior.last_far_from_target
    window,                    \* what the actuator (window / movement) received
    call                       \* the operation that produced this state, with its inputs

vars == <<config, slots_usage_last_time, last_buff_usage,
          avoid_obstacle_direction, last_far_from_target, window, call>>

-----------------------------------------------------------------------------
(* Option<T> *)

None == <<>>

Some(x) == <<x>>

is_some(o) == o # <<>>

is_none(o) == o = <<>>

unwrap(o) == o[1]

unwrap_or(o, d) == IF o = <<>> THEN d ELSE o[1]

-----------------------------------------------------------------------------
(* Bounds of the model and constants of the program *)

\* the grid of the program is 9 bars of 10 slots; the model checks a smaller one
NumBars == 2

NumSlots == 2

DefaultCooldown == 100

DefaultThreshold == 100

DefaultStat == 0

\* ages saturate here
AgeCap == 250

\* at most this many slots of the grid differ from Slot::default()
MaxConfigured == 2

Bars == 0 .. (NumBars - 1)

SlotIdx == 0 .. (NumSlots - 1)

\* the positions a configuration of the model may fill
Configurable == { <<0, 0>>, <<0, 1>>, <<NumBars - 1, NumSlots - 1>> }

-----------------------------------------------------------------------------
(* ipc/bot_config.rs *)

SlotType == { "Unused", "ChatMessage", "Food", "Pill", "HealSkill", "MpRestorer",
              "FpRestorer", "PickupPet", "PickupMotion", "AttackSkill",
              "BuffSkill", "RezSkill", "Flying" }

Slot(t, cd, th, en) ==
    [ slot_type |-> t, slot_cooldown |-> cd, slot_threshold |-> th, slot_enabled |-> en ]

SlotDefault == Slot("Unused", None, None, TRUE)

SlotBarDefault == [ i \in SlotIdx |-> SlotDefault ]

\* Ord for Option<u32>: None is less than every Some, Some compares by value
OptionCmp(x, y) ==
    IF is_none(x) THEN (IF is_none(y) THEN "Equal" ELSE "Less")
    ELSE IF is_none(y) THEN "Greater"
    ELSE IF unwrap(x) < unwrap(y) THEN "Less"
    ELSE IF unwrap(x) > unwrap(y) THEN "Greater"
    ELSE "Equal"

\* a filter that forgets the enabled flag
SlotFilterIgnoresEnabled(slots, slot_type, threshold, last_slots_usage, slot_bar_index, index) ==
    /\ slots[index].slot_type = slot_type
    /\ unwrap_or(slots[index].slot_threshold, DefaultThreshold) >= unwrap_or(threshold, DefaultStat)
    /\ is_none(last_slots_usage[slot_bar_index][index])

\* the closure of .filter(): slot `index` of bar `slot_bar_index` is usable
SlotFilter(slots, slot_type, threshold, last_slots_usage, slot_bar_index, index) ==
    /\ slots[index].slot_type = slot_type
    /\ slots[index].slot_enabled
    /\ unwrap_or(slots[index].slot_threshold, DefaultThreshold) >= unwrap_or(threshold, DefaultStat)
    /\ is_none(last_slots_usage[slot_bar_index][index])

\* .iter().enumerate().filter(..): the usable indices of the bar, ascending
RECURSIVE Filtered(_, _, _, _, _, _)
Filtered(slots, slot_type, threshold, last_slots_usage, slot_bar_index, from) ==
    IF from >= NumSlots THEN <<>>
    ELSE (IF SlotFilter(slots, slot_type, threshold, last_slots_usage, slot_bar_index, from)
          THEN <<from>> ELSE <<>>)
         \o Filtered(slots, slot_type, threshold, last_slots_usage, slot_bar_index, from + 1)

\* the closure of .min_by(): compares the raw Option<u32> thresholds
MinByCmp(slots, x, y) == OptionCmp(slots[x].slot_threshold, slots[y].slot_threshold)

\* Iterator::min_by: a fold that keeps the earlier element unless it is Greater
RECURSIVE MinByFold(_, _, _)
MinByFold(slots, best, rest) ==
    IF rest = <<>> THEN best
    ELSE MinByFold(slots,
                   IF MinByCmp(slots, best, Head(rest)) = "Greater" THEN Head(rest) ELSE best,
                   Tail(rest))

MinBy(slots, seq) == IF seq = <<>> THEN None ELSE Some(MinByFold(slots, Head(seq), Tail(seq)))

\* SlotBar::get_usable_slot_index
SlotBar_get_usable_slot_index(slots, slot_type, threshold, last_slots_usage, slot_bar_index) ==
    LET found == MinBy(slots, Filtered(slots, slot_type, threshold, last_slots_usage,
                                       slot_bar_index, 0))
    IN  IF is_some(found) THEN Some(<<slot_bar_index, unwrap(found)>>) ELSE None

\* SupportConfig::slot_bars
slot_bars(cfg) == unwrap_or(cfg.slot_bars, [ b \in Bars |-> SlotBarDefault ])

\* Slot::get_slot_cooldown
Slot_get_slot_cooldown(slot) ==
    IF is_some(slot.slot_cooldown) THEN slot.slot_cooldown ELSE Some(DefaultCooldown)

\* SupportConfig::get_slot_cooldown
get_slot_cooldown(cfg, slot_bar_index, slot_index) ==
    Slot_get_slot_cooldown(slot_bars(cfg)[slot_bar_index][slot_index])

\* SupportConfig::get_usable_slot_index: for n in 0..9, the first bar that finds one
RECURSIVE UsableFrom(_, _, _, _, _)
UsableFrom(cfg, slot_type, threshold, last_slots_usage, n) ==
    IF n >= NumBars THEN None
    ELSE LET found_index == SlotBar_get_usable_slot_index(slot_bars(cfg)[n], slot_type,
                                                          threshold, last_slots_usage, n)
         IN  IF is_some(found_index) THEN Some(unwrap(found_index))
             ELSE UsableFrom(cfg, slot_type, threshold, last_slots_usage, n + 1)

get_usable_slot_index(cfg, slot_type, threshold, last_slots_usage) ==
    UsableFrom(cfg, slot_type, threshold, last_slots_usage, 0)

-----------------------------------------------------------------------------
(* Time: an Instant is the number of whole milliseconds since it was taken *)

Now == 0

Older(age, d) == IF age + d > AgeCap THEN AgeCap ELSE age + d

OlderOpt(o, d) == IF is_none(o) THEN None ELSE Some(Older(unwrap(o), d))

\* d milliseconds pass: every Instant the behavior and the actuator hold ages by d
Elapse(self, d) ==
    [ self EXCEPT
        !.slots_usage_last_time =
            [ b \in Bars |-> [ s \in SlotIdx |-> OlderOpt(self.slots_usage_last_time[b][s], d) ] ],
        !.last_buff_usage = Older(self.last_buff_usage, d),
        !.last_far_from_target = OlderOpt(self.last_far_from_target, d),
        !.window.sent = [ p \in DOMAIN self.window.sent |-> Older(self.window.sent[p], d) ],
        !.window.born = Older(self.window.born, d) ]

-----------------------------------------------------------------------------
(* The actuator: platform::send_slot_eval and the movement accessor.  The  *)
(* model keeps what it received: log, the commands of the current call in  *)
(* order; sent, for every slot position triggered so far, the time since   *)
(* its latest trigger; kept, the positions triggered since the latest bulk *)
(* reset of the cooldown matrix; gap, for every position the current call  *)
(* triggered and that had been triggered before, the time between the two  *)
(* triggers and whether a bulk reset lay between them; turn, the turn keys  *)
(* of the latest two HoldKeys commands, the latest last; born, the time    *)
(* since the behavior was constructed.                                     *)

WindowNew ==
    [ log |-> <<>>, sent |-> <<>>, kept |-> {}, gap |-> <<>>, turn |-> <<>>, born |-> Now ]

\* extend or overwrite a function at one point
Put(f, k, v) == [ x \in (DOMAIN f) \cup {k} |-> IF x = k THEN v ELSE f[x] ]

send_slot_eval(w, bar, slot) ==
    LET p == <<bar, slot>>
    IN  [ log  |-> Append(w.log, <<"slot", bar, slot>>),
          sent |-> Put(w.sent, p, Now),
          kept |-> w.kept \cup {p},
          gap  |-> IF p \in DOMAIN w.sent
                   THEN Put(w.gap, p, [ time |-> w.sent[p], reset |-> p \notin w.kept ])
                   ELSE w.gap,
          turn |-> w.turn,
          born |-> w.born ]

\* the keys of HoldKeys are forward, jump and the turn key, in that order
Play(w, cmd) ==
    [ w EXCEPT !.log = Append(w.log, cmd),
               !.turn = IF cmd[1] # "HoldKeys" THEN w.turn
                        ELSE IF w.turn = <<>> THEN << cmd[2][3] >>
                        ELSE << w.turn[Len(w.turn)], cmd[2][3] >> ]

\* the keys held down once the actuator has carried out cmd, held being the
\* keys held before: HoldKeys presses its keys and leaves them down,
\* ReleaseKey and ReleaseKeys let theirs go, HoldKeyFor releases its key when
\* its duration is over, PressKey presses and releases, a slot trigger holds
\* no key
HeldAfter(held, cmd) ==
    IF cmd[1] = "HoldKeys" THEN held \cup { cmd[2][i] : i \in 1 .. Len(cmd[2]) }
    ELSE IF cmd[1] = "ReleaseKey" THEN held \ { cmd[2] }
    ELSE IF cmd[1] = "ReleaseKeys" THEN held \ { cmd[2][i] : i \in 1 .. Len(cmd[2]) }
    ELSE held

\* the keys held down after the first n commands of a log, none held before
RECURSIVE HeldAt(_, _)
HeldAt(log, n) == IF n = 0 THEN {} ELSE HeldAfter(HeldAt(log, n - 1), log[n])

-----------------------------------------------------------------------------
(* behavior/support_behavior.rs *)

EmptyUsage == [ b \in Bars |-> [ s \in SlotIdx |-> None ] ]

\* SupportBehavior::new
new ==
    [ slots_usage_last_time    |-> EmptyUsage,
      last_buff_usage          |-> Now,
      avoid_obstacle_direction |-> "D",
      last_far_from_target     |-> None,
      window                   |-> WindowNew ]

\* SupportBehavior::stop
stop(self) == [ self EXCEPT !.slots_usage_last_time = EmptyUsage ]

\* u32 -> u128 .try_into(): Ok for every u32
TryInto(x) == IF x >= 0 THEN Some(x) ELSE None

\* a sweep that clears an entry as soon as the cooldown is reached
SweepEntryAtLeast(cfg, last_time, slotbar_index, slot_index) ==
    LET cooldown == TryInto(unwrap_or(get_slot_cooldown(cfg, slotbar_index, slot_index),
                                      DefaultCooldown))
    IN  IF is_some(last_time) /\ is_some(cooldown) /\ unwrap(last_time) >= unwrap(cooldown)
        THEN None
        ELSE last_time

\* a sweep that clears nothing
SweepEntryNever(cfg, last_time, slotbar_index, slot_index) == last_time

\* a sweep that clears every present entry, whatever its cooldown
SweepEntryIgnoresCooldown(cfg, last_time, slotbar_index, slot_index) == None

\* the body of the inner loop of update_slots_usage for one entry
SweepEntry(cfg, last_time, slotbar_index, slot_index) ==
    LET cooldown == TryInto(unwrap_or(get_slot_cooldown(cfg, slotbar_index, slot_index),
                                      DefaultCooldown))
    IN  IF is_some(last_time) /\ is_some(cooldown) /\ unwrap(last_time) > unwrap(cooldown)
        THEN None
        ELSE last_time

\* SupportBehavior::update_slots_usage
update_slots_usage(self, cfg) ==
    [ self EXCEPT !.slots_usage_last_time =
        [ b \in Bars |-> [ s \in SlotIdx |->
            SweepEntry(cfg, self.slots_usage_last_time[b][s], b, s) ] ] ]

\* a send_slot that sends the keystroke and records the usage of the whole bar
send_slot_marks_bar(self, slot_index) ==
    [ self EXCEPT
        !.window = send_slot_eval(self.window, slot_index[1], slot_index[2]),
        !.slots_usage_last_time[slot_index[1]] = [ s \in SlotIdx |-> Some(Now) ] ]

\* SupportBehavior::send_slot
send_slot(self, slot_index) ==
    [ self EXCEPT
        !.window = send_slot_eval(self.window, slot_index[1], slot_index[2]),
        !.slots_usage_last_time[slot_index[1]][slot_index[2]] = Some(Now) ]

\* a get_slot_for that sends whatever `send` says
get_slot_for_always_sends(self, cfg, threshold, slot_type, send) ==
    LET found == get_usable_slot_index(cfg, slot_type, threshold, self.slots_usage_last_time)
    IN  IF is_some(found)
        THEN [ self |-> send_slot(self, unwrap(found)), ret |-> Some(unwrap(found)) ]
        ELSE [ self |-> self, ret |-> None ]

\* SupportBehavior::get_slot_for: the behavior afterwards and the value returned
get_slot_for(self, cfg, threshold, slot_type, send) ==
    LET found == get_usable_slot_index(cfg, slot_type, threshold, self.slots_usage_last_time)
    IN  IF is_some(found)
        THEN [ self |-> IF send THEN send_slot(self, unwrap(found)) ELSE self,
               ret  |-> Some(unwrap(found)) ]
        ELSE [ self |-> self, ret |-> None ]

\* std::thread::sleep(Duration::from_millis(100)), in run_iteration and check_buffs
PacingDelay == 100

\* the marker distance beyond which the target counts as far
FarDistance == 200

\* BotConfig::interval_between_buffs
interval_between_buffs(cfg) == unwrap_or(cfg.interval_between_buffs, 2000)

\* BotConfig::obstacle_avoidance_cooldown
obstacle_avoidance_cooldown(cfg) == unwrap_or(cfg.obstacle_avoidance_cooldown, 0)

\* a circling macro that flips the direction before it releases the turn key
move_circle_pattern_flips_early(self) ==
    LET dir == self.avoid_obstacle_direction
        s1 == [ self EXCEPT !.window = Play(self.window, <<"HoldKeys", <<"W", "Space", dir>>>>),
                            !.avoid_obstacle_direction = IF dir = "D" THEN "A" ELSE "D" ]
        s2 == Elapse(s1, 200)
        s3 == [ s2 EXCEPT !.window = Play(s2.window, <<"ReleaseKey", s2.avoid_obstacle_direction>>) ]
        s4 == Elapse(s3, 500)
        s5 == [ s4 EXCEPT !.window = Play(s4.window, <<"ReleaseKeys", <<"Space", "W">>>>) ]
        s6 == Elapse([ s5 EXCEPT !.window = Play(s5.window, <<"HoldKeyFor", "S", 50>>) ], 50)
        s7 == [ s6 EXCEPT !.window = Play(s6.window, <<"PressKey", "Z">>) ]
    IN  Elapse(s7, 300)

\* a circling macro that turns the same way every time
move_circle_pattern_keeps_direction(self) ==
    LET dir == self.avoid_obstacle_direction
        s1 == [ self EXCEPT !.window = Play(self.window, <<"HoldKeys", <<"W", "Space", dir>>>>) ]
        s2 == Elapse(s1, 200)
        s3 == [ s2 EXCEPT !.window = Play(s2.window, <<"ReleaseKey", s2.avoid_obstacle_direction>>) ]
        s4 == Elapse(s3, 500)
        s5 == [ s4 EXCEPT !.window = Play(s4.window, <<"ReleaseKeys", <<"Space", "W">>>>) ]
        s6 == Elapse([ s5 EXCEPT !.window = Play(s5.window, <<"HoldKeyFor", "S", 50>>) ], 50)
        s7 == [ s6 EXCEPT !.window = Play(s6.window, <<"PressKey", "Z">>) ]
    IN  Elapse(s7, 300)

\* SupportBehavior::move_circle_pattern
move_circle_pattern(self) ==
    LET dir == self.avoid_obstacle_direction
        s1 == [ self EXCEPT !.window = Play(self.window, <<"HoldKeys", <<"W", "Space", dir>>>>) ]
        s2 == Elapse(s1, 200)
        s3 == [ s2 EXCEPT !.window = Play(s2.window, <<"ReleaseKey", s2.avoid_obstacle_direction>>) ]
        s4 == Elapse(s3, 500)
        s5 == [ s4 EXCEPT !.window = Play(s4.window, <<"ReleaseKeys", <<"Space", "W">>>>) ]
        s6 == Elapse([ s5 EXCEPT !.window = Play(s5.window, <<"HoldKeyFor", "S", 50>>) ], 50)
        s7 == [ s6 EXCEPT !.window = Play(s6.window, <<"PressKey", "Z">>) ]
        s8 == Elapse(s7, 300)
    IN  [ s8 EXCEPT !.avoid_obstacle_direction =
            IF s8.avoid_obstacle_direction = "D" THEN "A" ELSE "D" ]

\* an avoid_obstacle that presses the probe key while it waits out the grace period
avoid_obstacle_probes_while_waiting(self, cfg) ==
    IF is_some(self.last_far_from_target)
          /\ unwrap(self.last_far_from_target) > obstacle_avoidance_cooldown(cfg)
    THEN move_circle_pattern(self)
    ELSE [ self EXCEPT !.window = Play(self.window, <<"PressKey", "Z">>) ]

\* an avoid_obstacle that circles as soon as the grace period is reached
avoid_obstacle_at_least(self, cfg) ==
    IF is_some(self.last_far_from_target)
    THEN IF unwrap(self.last_far_from_target) >= obstacle_avoidance_cooldown(cfg)
         THEN move_circle_pattern(self)
         ELSE self
    ELSE [ self EXCEPT !.window = Play(self.window, <<"PressKey", "Z">>) ]

\* SupportBehavior::avoid_obstacle
avoid_obstacle(self, cfg) ==
    IF is_some(self.last_far_from_target)
    THEN IF unwrap(self.last_far_from_target) > obstacle_avoidance_cooldown(cfg)
         THEN move_circle_pattern(self)
         ELSE self
    ELSE [ self EXCEPT !.window = Play(self.window, <<"PressKey", "Z">>) ]

\* a buff check that restarts its timer only when a slot was dispatched
check_buffs_resets_on_dispatch(self, cfg) ==
    IF self.last_buff_usage > interval_between_buffs(cfg)
    THEN LET r == get_slot_for(self, cfg, None, "BuffSkill", TRUE)
             s2 == IF is_some(r.ret) THEN [ r.self EXCEPT !.last_buff_usage = Now ] ELSE r.self
         IN  Elapse(s2, PacingDelay)
    ELSE self

\* a buff check that fires whatever the time since the last one
check_buffs_ignores_interval(self, cfg) ==
    LET s1 == [ self EXCEPT !.last_buff_usage = Now ]
        s2 == get_slot_for(s1, cfg, None, "BuffSkill", TRUE).self
    IN  Elapse(s2, PacingDelay)

\* SupportBehavior::check_buffs
check_buffs(self, cfg) ==
    IF self.last_buff_usage > interval_between_buffs(cfg)
    THEN LET s1 == [ self EXCEPT !.last_buff_usage = Now ]
             s2 == get_slot_for(s1, cfg, None, "BuffSkill", TRUE).self
         IN  Elapse(s2, PacingDelay)
    ELSE self

\* a restoration pass that tries Food whether or not a Pill slot matched
check_restorations_always_food(self, cfg, image) ==
    LET s1 == IF image.hp > 0
              THEN get_slot_for(get_slot_for(self, cfg, Some(image.hp), "Pill", TRUE).self,
                                cfg, Some(image.hp), "Food", TRUE).self
              ELSE self
        s2 == IF image.target_hp > 0
              THEN get_slot_for(s1, cfg, Some(image.target_hp), "HealSkill", TRUE).self
              ELSE s1
        s3 == IF image.mp > 0
              THEN get_slot_for(s2, cfg, Some(image.mp), "MpRestorer", TRUE).self
              ELSE s2
    IN  IF image.fp > 0
        THEN get_slot_for(s3, cfg, Some(image.fp), "FpRestorer", TRUE).self
        ELSE s3

\* SupportBehavior::check_restorations
check_restorations(self, cfg, image) ==
    LET s1 == IF image.hp > 0
              THEN LET pill == get_slot_for(self, cfg, Some(image.hp), "Pill", TRUE)
                   IN  IF is_none(pill.ret)
                       THEN get_slot_for(pill.self, cfg, Some(image.hp), "Food", TRUE).self
                       ELSE pill.self
              ELSE self
        s2 == IF image.target_hp > 0
              THEN get_slot_for(s1, cfg, Some(image.target_hp), "HealSkill", TRUE).self
              ELSE s1
        s3 == IF image.mp > 0
              THEN get_slot_for(s2, cfg, Some(image.mp), "MpRestorer", TRUE).self
              ELSE s2
    IN  IF image.fp > 0
        THEN get_slot_for(s3, cfg, Some(image.fp), "FpRestorer", TRUE).self
        ELSE s3

\* an engagement branch that leaves the far timer alone when the target is near
Engage_keeps_far(self, cfg, image) ==
    IF image.target_hp > 0
    THEN IF is_some(image.target_marker)
         THEN LET marker_distance == unwrap(image.target_marker)
              IN  IF marker_distance > FarDistance
                  THEN avoid_obstacle(
                         IF is_none(self.last_far_from_target)
                         THEN [ self EXCEPT !.last_far_from_target = Some(Now) ]
                         ELSE self, cfg)
                  ELSE check_buffs(self, cfg)
         ELSE avoid_obstacle(self, cfg)
    ELSE self

\* the engagement branch of run_iteration, after the pacing delay
Engage(self, cfg, image) ==
    IF image.target_hp > 0
    THEN IF is_some(image.target_marker)
         THEN LET marker_distance == unwrap(image.target_marker)
              IN  IF marker_distance > FarDistance
                  THEN avoid_obstacle(
                         IF is_none(self.last_far_from_target)
                         THEN [ self EXCEPT !.last_far_from_target = Some(Now) ]
                         ELSE self, cfg)
                  ELSE check_buffs([ self EXCEPT !.last_far_from_target = None ], cfg)
         ELSE avoid_obstacle(self, cfg)
    ELSE self

\* a death check without the bulk reset
DeathTickKeepsMatrix(self, cfg) == get_slot_for(self, cfg, None, "RezSkill", TRUE).self

\* the death check of run_iteration: the rez attempt, then the bulk reset
DeathTick(self, cfg) ==
    LET s1 == get_slot_for(self, cfg, None, "RezSkill", TRUE).self
    IN  [ s1 EXCEPT !.slots_usage_last_time = EmptyUsage ]

\* a run_iteration whose death check does not return
run_iteration_falls_through(self, cfg, image) ==
    LET s1 == update_slots_usage(self, cfg)
        s2 == IF image.target_hp = 0 /\ is_some(image.target_marker)
              THEN DeathTick(s1, cfg)
              ELSE s1
    IN  Engage(Elapse(check_restorations(s2, cfg, image), PacingDelay), cfg, image)

\* a run_iteration that runs the engagement branch before the restoration pass
run_iteration_engages_first(self, cfg, image) ==
    LET s1 == update_slots_usage(self, cfg)
    IN  IF image.target_hp = 0 /\ is_some(image.target_marker)
        THEN DeathTick(s1, cfg)
        ELSE check_restorations(Engage(Elapse(s1, PacingDelay), cfg, image), cfg, image)

\* SupportBehavior::run_iteration
run_iteration(self, cfg, image) ==
    LET s1 == update_slots_usage(self, cfg)
    IN  IF image.target_hp = 0 /\ is_some(image.target_marker)
        THEN DeathTick(s1, cfg)
        ELSE Engage(Elapse(check_restorations(s1, cfg, image), PacingDelay), cfg, image)

-----------------------------------------------------------------------------
(* Configurations and inputs of the model *)

\* the grid that is Slot::default() everywhere except on the positions f fills
GridOf(f) ==
    [ b \in Bars |-> [ s \in SlotIdx |->
        IF <<b, s>> \in DOMAIN f THEN f[<<b, s>>] ELSE SlotDefault ] ]

\* every grid with at most MaxConfigured of the Configurable positions filled from kinds
Grids(kinds) ==
    { GridOf(f) : f \in UNION { [ P -> kinds ] :
        P \in { Q \in SUBSET Configurable : Cardinality(Q) <= MaxConfigured } } }

\* slots that differ in type, threshold and enabled flag
SelectSlots ==
    { Slot(t, None, th, en) : t \in {"Pill", "Food"}, th \in {None, Some(50), Some(100)},
                              en \in BOOLEAN }

\* slots that differ in cooldown
SweepSlots == { Slot("Pill", cd, None, TRUE) : cd \in {None, Some(0), Some(200)} }

\* slots the death check and the restoration pass ask for
TickSlots ==
    { Slot("RezSkill", Some(200), None, TRUE), Slot("Pill", Some(200), Some(50), TRUE),
      Slot("Food", None, None, TRUE) }

\* the positions a configuration of a behavior session fills
TickPositions == { <<0, 0>>, <<NumBars - 1, NumSlots - 1>> }

TickGrids == { GridOf(f) : f \in UNION { [ P -> TickSlots ] : P \in SUBSET TickPositions } }

\* a BotConfig: the slot grid, the inter-buff interval, the obstacle-avoidance grace period
ConfigOf(bars, interval, grace) ==
    [ slot_bars |-> bars, interval_between_buffs |-> interval,
      obstacle_avoidance_cooldown |-> grace ]

SelectConfigs == { ConfigOf(Some(g), Some(200), Some(0)) : g \in Grids(SelectSlots) }

SweepConfigs == { ConfigOf(Some(g), Some(200), Some(0)) : g \in Grids(SweepSlots) }

TickConfigs == { ConfigOf(Some(g), Some(200), None) : g \in TickGrids }

\* slots the buff check asks for
EngageSlots == { Slot("BuffSkill", Some(200), None, TRUE), Slot("BuffSkill", None, None, FALSE) }

EngageGrids == { GridOf(f) : f \in UNION { [ P -> EngageSlots ] : P \in SUBSET TickPositions } }

\* two inter-buff intervals; the grace period left at its default and a configured one
EngageConfigs ==
    { ConfigOf(Some(g), interval, grace) :
        g \in EngageGrids, interval \in { Some(150), Some(200) }, grace \in { None, Some(200) } }

\* a restorer, a buff and a rez slot, for ticks that ask for all of them
OrderSlots ==
    { Slot("Pill", Some(200), Some(50), TRUE), Slot("BuffSkill", None, None, TRUE),
      Slot("RezSkill", Some(200), None, TRUE) }

OrderGrids == { GridOf(f) : f \in UNION { [ P -> OrderSlots ] : P \in SUBSET TickPositions } }

OrderConfigs == { ConfigOf(Some(g), Some(150), None) : g \in OrderGrids }

\* grids whose two slots are a restorer or a rez slot, of cooldown 200 ms or the default
LiveSlots == { Slot("Pill", Some(200), Some(50), TRUE), Slot("RezSkill", None, None, TRUE) }

LiveConfigs ==
    { ConfigOf(Some(GridOf(f)), Some(150), None) : f \in [ TickPositions -> LiveSlots ] }

\* the stat values a caller gates a slot on
StatValues == { None, Some(50), Some(60) }

\* the sensor snapshot of one tick: image.client_stats and the target marker,
\* the marker given by its distance
Image(self_stats, target) ==
    [ hp |-> self_stats[1], mp |-> self_stats[2], fp |-> self_stats[3],
      target_hp |-> target[1], target_marker |-> target[2] ]

\* <<hp, mp, fp>>
SelfStats == { <<40, 40, 40>>, <<80, 40, 0>>, <<0, 0, 40>> }

\* <<target_hp, target_marker>>
TargetViews ==
    { <<0, Some(100)>>, <<0, Some(250)>>, <<0, None>>,
      <<40, Some(100)>>, <<40, Some(250)>>, <<40, None>> }

Images == { Image(st, t) : st \in SelfStats, t \in TargetViews }

\* snapshots that ask for a Pill
OrderImages == { Image(<<40, 0, 0>>, t) : t \in TargetViews }

\* a living target nearby, a dead one, no target in sight
LiveImages ==
    { Image(<<40, 0, 0>>, <<40, Some(100)>>), Image(<<40, 0, 0>>, <<0, Some(100)>>),
      Image(<<0, 0, 0>>, <<40, None>>) }

\* snapshots that ask for no restorer
EngageImages == { Image(<<0, 0, 0>>, t) : t \in TargetViews }

\* the time that may pass between two calls
Gaps == { 50, 100 }

\* the time that may pass between two ticks
TickGaps == { 100 }

-----------------------------------------------------------------------------
(* The state machine *)

Self ==
    [ slots_usage_last_time    |-> slots_usage_last_time,
      last_buff_usage          |-> last_buff_usage,
      avoid_obstacle_direction |-> avoid_obstacle_direction,
      last_far_from_target     |-> last_far_from_target,
      window                   |-> window ]

\* the behavior at the start of a call: the actuator's log of the call is empty
Begin == [ Self EXCEPT !.window.log = <<>>, !.window.gap = <<>> ]

Becomes(s) ==
    /\ slots_usage_last_time' = s.slots_usage_last_time
    /\ last_buff_usage' = s.last_buff_usage
    /\ avoid_obstacle_direction' = s.avoid_obstacle_direction
    /\ last_far_from_target' = s.last_far_from_target
    /\ window' = s.window

InitWith(cfgs) ==
    /\ config \in cfgs
    /\ slots_usage_last_time = new.slots_usage_last_time
    /\ last_buff_usage = new.last_buff_usage
    /\ avoid_obstacle_direction = new.avoid_obstacle_direction
    /\ last_far_from_target = new.last_far_from_target
    /\ window = new.window
    /\ call = [ op |-> "new" ]

\* a call of get_slot_for
GetSlotFor(slot_type, threshold, send) ==
    LET r == get_slot_for(Begin, config, threshold, slot_type, send)
    IN  /\ Becomes(r.self)
        /\ call' = [ op |-> "get_slot_for", slot_type |-> slot_type,
                     threshold |-> threshold, send |-> send, ret |-> r.ret ]
        /\ UNCHANGED config

\* a call of update_slots_usage
UpdateSlotsUsage ==
    /\ Becomes(update_slots_usage(Begin, config))
    /\ call' = [ op |-> "update_slots_usage" ]
    /\ UNCHANGED config

\* the actuator's record after a bulk reset of the cooldown matrix
Forget(s) == [ s EXCEPT !.window.kept = {} ]

\* target HP == 0 and a target marker is present
DeathWithMarker(image) == image.target_hp = 0 /\ image.target_marker # None

\* a call of stop
Stop ==
    /\ Becomes(Forget(stop(Begin)))
    /\ call' = [ op |-> "stop" ]
    /\ UNCHANGED config

\* one tick
RunIteration(image) ==
    /\ \E s \in { run_iteration(Begin, config, image) } :
          Becomes(IF DeathWithMarker(image) THEN Forget(s) ELSE s)
    /\ call' = [ op |-> "run_iteration", image |-> image ]
    /\ UNCHANGED config

\* d milliseconds pass between two calls
TimePasses(d) ==
    /\ Becomes(Elapse(Self, d))
    /\ call' = [ op |-> "elapse", d |-> d ]
    /\ UNCHANGED config

\* get_slot_for called on any grid, usage matrix, type and stat value
InitSelect == InitWith(SelectConfigs)

NextSelect ==
    \/ \E t \in {"Pill", "Food"}, v \in StatValues, send \in BOOLEAN : GetSlotFor(t, v, send)
    \/ Stop

SpecSelect == InitSelect /\ [][NextSelect]_vars

\* slots used and swept as time passes
InitSweep == InitWith(SweepConfigs)

NextSweep ==
    \/ \E send \in BOOLEAN : GetSlotFor("Pill", None, send)
    \/ UpdateSlotsUsage
    \/ \E d \in Gaps : TimePasses(d)

SpecSweep == InitSweep /\ [][NextSweep]_vars

\* a behavior session: ticks, time passing between them, stop
Init == InitWith(TickConfigs)

Next ==
    \/ \E image \in Images : RunIteration(image)
    \/ \E d \in TickGaps : TimePasses(d)
    \/ Stop

Spec == Init /\ [][Next]_vars

\* a behavior session that follows a target: buff checks and obstacle avoidance
InitEngage == InitWith(EngageConfigs)

NextEngage ==
    \/ \E image \in EngageImages : RunIteration(image)
    \/ \E d \in TickGaps : TimePasses(d)
    \/ Stop

SpecEngage == InitEngage /\ [][NextEngage]_vars

\* a behavior session whose ticks restore, buff, circle and revive
InitOrder == InitWith(OrderConfigs)

NextOrder ==
    \/ \E image \in OrderImages : RunIteration(image)
    \/ \E d \in TickGaps : TimePasses(d)

SpecOrder == InitOrder /\ [][NextOrder]_vars

\* a session under the bot loop, which calls run_iteration again and again
InitLive == InitWith(LiveConfigs)

NextLive ==
    \/ \E image \in LiveImages : RunIteration(image)
    \/ \E d \in TickGaps : TimePasses(d)

SpecLive ==
    /\ InitLive /\ [][NextLive]_vars
    /\ WF_vars(\E image \in LiveImages : RunIteration(image))

-----------------------------------------------------------------------------
(* Vocabulary of the claims *)

Positions == Bars \X SlotIdx

SlotAt(p) == slot_bars(config)[p[1]][p[2]]

\* a slot's threshold, an absent one counting as 100
ThresholdOf(p) == IF SlotAt(p).slot_threshold = None THEN 100 ELSE SlotAt(p).slot_threshold[1]

\* a slot's configured cooldown, 100 ms when unset
CooldownOf(p) == IF SlotAt(p).slot_cooldown = None THEN 100 ELSE SlotAt(p).slot_cooldown[1]

\* a stat value, an absent one counting as 0
StatOf(v) == IF v = None THEN 0 ELSE v[1]

\* the entry of position p in a cooldown matrix
Entry(usage, p) == usage[p[1]][p[2]]

\* slot p is eligible for type t and stat value v under the cooldown matrix usage
Eligible(p, t, v, usage) ==
    /\ SlotAt(p).slot_type = t
    /\ SlotAt(p).slot_enabled = TRUE
    /\ ThresholdOf(p) >= StatOf(v)
    /\ Entry(usage, p) = None

\* p comes before q: lower bar index, then lower slot index
Before(p, q) == p[1] < q[1] \/ (p[1] = q[1] /\ p[2] <= q[2])

\* the state was produced by get_slot_for and a position was returned
Returned(c) == c.op = "get_slot_for" /\ c.ret # None

-----------------------------------------------------------------------------
(* Slot selection: SpecSelect *)

\* C1: the position get_slot_for returns holds a slot whose threshold (absent
\* as 100) is the smallest among ALL eligible slots of the whole grid.
C1_GridWideMinimum ==
    [][ Returned(call') =>
          \A q \in Positions :
              Eligible(q, call'.slot_type, call'.threshold, slots_usage_last_time)
                  => ThresholdOf(call'.ret[1]) <= ThresholdOf(q) ]_vars

\* C2: among the eligible slots whose threshold (absent as 100) equals that of
\* the returned slot, the returned position is the first: lowest bar index,
\* then lowest slot index.
C2_TieBreak ==
    [][ Returned(call') =>
          \A q \in Positions :
              ( /\ Eligible(q, call'.slot_type, call'.threshold, slots_usage_last_time)
                /\ ThresholdOf(q) = ThresholdOf(call'.ret[1]) )
                  => Before(call'.ret[1], q) ]_vars

\* C3: a returned position holds a slot of the requested type, enabled, with
\* threshold >= the stat value, whose cooldown entry was absent at selection.
C3_SelectionSound ==
    [][ Returned(call') =>
          Eligible(call'.ret[1], call'.slot_type, call'.threshold, slots_usage_last_time) ]_vars

\* C3 witness: a position was returned although an earlier slot of the requested
\* type was disabled and another one was on cooldown.
C3_Witness ==
    /\ Returned(call)
    /\ \E q \in Positions :
          /\ q # call.ret[1] /\ Before(q, call.ret[1])
          /\ SlotAt(q).slot_type = call.slot_type
          /\ ~SlotAt(q).slot_enabled

\* C4: get_slot_for returns None exactly when no slot of the grid is eligible;
\* when it returns None, and when send is false, no actuator command is
\* issued and the cooldown matrix is unchanged.
C4_NoneAndProbe ==
    [][ call'.op = "get_slot_for" =>
          /\ (call'.ret = None) <=>
               ~ \E q \in Positions :
                     Eligible(q, call'.slot_type, call'.threshold, slots_usage_last_time)
          /\ (call'.ret = None \/ ~call'.send) =>
               /\ window'.log = <<>>
               /\ slots_usage_last_time' = slots_usage_last_time ]_vars

\* C4 witness: a probe (send = false) found a position while another slot was in
\* use, and nothing was sent.
C4_Witness ==
    /\ Returned(call) /\ ~call.send
    /\ \E q \in Positions : Entry(slots_usage_last_time, q) # None

\* C4 witness of the None case: a firing call found nothing although the grid
\* holds a slot of the requested type.
C4_WitnessNone ==
    /\ call.op = "get_slot_for" /\ call.ret = None /\ call.send
    /\ \E q \in Positions : SlotAt(q).slot_type = call.slot_type

-----------------------------------------------------------------------------
(* Dispatch and sweep: SpecSweep *)

\* C5: a successful get_slot_for with send = true issues exactly one actuator
\* slot command, for the returned position; the entry of that position becomes
\* the current time and every other entry is unchanged.
C5_OneCommandOneRecord ==
    [][ (Returned(call') /\ call'.send) =>
          LET p == call'.ret[1]
          IN  /\ window'.log = << <<"slot", p[1], p[2]>> >>
              /\ Entry(slots_usage_last_time', p) = Some(0)
              /\ \A q \in Positions \ {p} :
                    Entry(slots_usage_last_time', q) = Entry(slots_usage_last_time, q) ]_vars

\* C5 witness: a slot was dispatched while another entry, recorded earlier, ages on.
C5_Witness ==
    /\ Returned(call) /\ call.send
    /\ \E q \in Positions \ {call.ret[1]} :
          /\ Entry(slots_usage_last_time, q) # None
          /\ Entry(slots_usage_last_time, q)[1] > 0

\* C6 as stated: a sweep clears a present entry once elapsed >= c and leaves it
\* when elapsed < c, c the configured cooldown (100 ms when unset); stated for
\* the positive cooldowns of the data model (a cooldown of 0 is the case of C7).
C6_ClearedFromCooldownOn ==
    [][ call'.op = "update_slots_usage" =>
          \A p \in Positions :
              ( Entry(slots_usage_last_time, p) # None /\ CooldownOf(p) > 0 ) =>
                  ( Entry(slots_usage_last_time', p) = None
                      <=> Entry(slots_usage_last_time, p)[1] >= CooldownOf(p) ) ]_vars

\* C6 amended: a sweep clears a present entry once elapsed > c and leaves it
\* unchanged when elapsed <= c.
C6_ClearedAfterCooldown ==
    [][ call'.op = "update_slots_usage" =>
          \A p \in Positions :
              Entry(slots_usage_last_time, p) # None =>
                  IF Entry(slots_usage_last_time, p)[1] > CooldownOf(p)
                  THEN Entry(slots_usage_last_time', p) = None
                  ELSE Entry(slots_usage_last_time', p) = Entry(slots_usage_last_time, p) ]_vars

\* C6 witness: a sweep left an entry whose age equals its slot's cooldown, and
\* cleared the entry of another slot that had been used.
C6_Witness ==
    /\ call.op = "update_slots_usage"
    /\ \E p \in Positions :
          /\ Entry(slots_usage_last_time, p) = Some(CooldownOf(p))
          /\ CooldownOf(p) > 0
    /\ \E q \in DOMAIN window.sent : Entry(slots_usage_last_time, q) = None

\* C7: a sweep treats a non-positive configured cooldown as the 100 ms default:
\* the entry of such a slot is cleared only once more than 100 ms have elapsed.
C7_ZeroCooldownIsDefault ==
    [][ call'.op = "update_slots_usage" =>
          \A p \in Positions :
              ( Entry(slots_usage_last_time, p) # None /\ CooldownOf(p) <= 0 ) =>
                  ( Entry(slots_usage_last_time', p) = None
                      <=> Entry(slots_usage_last_time, p)[1] > 100 ) ]_vars

-----------------------------------------------------------------------------
(* A behavior session: Spec *)

\* the state was produced by a tick that saw target HP == 0 and a marker
DeathTicked(c) == c.op = "run_iteration" /\ DeathWithMarker(c.image)

\* C8 as stated: two dispatches of the same slot position are separated by at
\* least that slot's cooldown, death ticks included.
C8_MinimumSeparation ==
    \A p \in DOMAIN window.gap : window.gap[p].time >= CooldownOf(p)

\* C8 amended: two dispatches of the same slot position with no bulk reset of
\* the cooldown matrix (a death-with-marker tick, a stop) between them are
\* separated by at least that slot's configured cooldown (100 ms when unset).
C8_SeparationBetweenResets ==
    \A p \in DOMAIN window.gap :
        ~window.gap[p].reset => window.gap[p].time >= CooldownOf(p)

\* C8 witness: a tick dispatched a slot again that had been dispatched before,
\* with no bulk reset in between.
C8_Witness ==
    /\ call.op = "run_iteration"
    /\ \E p \in DOMAIN window.gap : ~window.gap[p].reset

\* C9: after a tick with target HP == 0 and a marker present, every entry of
\* the cooldown matrix is absent, the entry of the RezSkill slot dispatched in
\* that tick included.
C9_RezReset ==
    DeathTicked(call) => \A p \in Positions : Entry(slots_usage_last_time, p) = None

\* C9 witness: a death tick dispatched a RezSkill slot while the entry of a
\* slot used less than its cooldown ago was still present.
C9_Witness ==
    /\ DeathTicked(call)
    /\ window.log # <<>>
    /\ \E q \in DOMAIN window.sent :
          /\ SlotAt(q).slot_type = "Pill"
          /\ window.sent[q] <= CooldownOf(q)

\* the logs a death tick may leave: nothing, or one trigger of a RezSkill slot
RezOnlyLogs ==
    { <<>> } \cup { << <<"slot", p[1], p[2]>> >> :
                      p \in { q \in Positions : SlotAt(q).slot_type = "RezSkill" } }

\* C10: a death-with-marker tick issues at most one actuator command, the
\* trigger of a RezSkill slot, and leaves far_since, the turn direction and the
\* last-buff timer unchanged (the tick has no sleep, so an Instant it leaves
\* alone has the same age after it as before).
C10_DeathTickEndsEarly ==
    [][ DeathTicked(call') =>
          /\ window'.log \in RezOnlyLogs
          /\ last_far_from_target' = last_far_from_target
          /\ avoid_obstacle_direction' = avoid_obstacle_direction
          /\ last_buff_usage' = last_buff_usage ]_vars

\* C10 witness: a death tick dispatched a RezSkill slot while the far timer was
\* set, the turn direction had flipped to A, and hp, mp or fp asked for a restorer.
C10_Witness ==
    /\ DeathTicked(call)
    /\ window.log # <<>>
    /\ last_far_from_target # None
    /\ avoid_obstacle_direction = "A"
    /\ call.image.hp > 0

\* the positions a log triggers, and those among them that hold a slot of type t
Dispatched(log) ==
    { <<log[i][2], log[i][3]>> : i \in { j \in 1 .. Len(log) : log[j][1] = "slot" } }

DispatchedOf(log, t) == { p \in Dispatched(log) : SlotAt(p).slot_type = t }

\* the state was produced by a tick
Ticked(c) == c.op = "run_iteration"

\* slot p is eligible for type t and stat value v once the sweep that opens a
\* tick has run on the cooldown matrix usage
EligibleAfterSweep(p, t, v, usage) ==
    /\ SlotAt(p).slot_type = t
    /\ SlotAt(p).slot_enabled = TRUE
    /\ ThresholdOf(p) >= StatOf(v)
    /\ (Entry(usage, p) = None \/ Entry(usage, p)[1] > CooldownOf(p))

\* C11: a tick dispatches a Food slot only when self HP > 0 and no Pill slot
\* was eligible for the HP value, and it dispatches at most one slot of the
\* types Pill and Food.
C11_FallbackOrder ==
    [][ Ticked(call') =>
          LET pill == DispatchedOf(window'.log, "Pill")
              food == DispatchedOf(window'.log, "Food")
          IN  /\ Cardinality(pill \cup food) <= 1
              /\ food # {} =>
                    /\ call'.image.hp > 0
                    /\ ~ \E q \in Positions :
                          EligibleAfterSweep(q, "Pill", Some(call'.image.hp),
                                             slots_usage_last_time) ]_vars

\* C11 witness: a tick dispatched a Food slot because the Pill slot of the grid,
\* whose threshold admits the HP value, was still on cooldown.
C11_Witness ==
    /\ Ticked(call)
    /\ DispatchedOf(window.log, "Food") # {}
    /\ \E q \in Positions :
          /\ SlotAt(q).slot_type = "Pill"
          /\ ThresholdOf(q) >= call.image.hp
          /\ Entry(slots_usage_last_time, q) # None

\* C11, the other case: a tick dispatched a Pill slot and left an eligible Food
\* slot alone.
C11_WitnessPill ==
    /\ Ticked(call)
    /\ DispatchedOf(window.log, "Pill") # {}
    /\ \E q \in Positions :
          /\ SlotAt(q).slot_type = "Food"
          /\ q \notin DOMAIN window.sent

-----------------------------------------------------------------------------
(* Following a target: SpecEngage *)

\* the turn keys the circling macros of a log hold
MacroKeys(log) ==
    { log[i][2][3] : i \in { j \in 1 .. Len(log) : log[j][1] = "HoldKeys" } }

\* the state was produced by a tick that ran the circling macro
MacroTicked(c, w) == Ticked(c) /\ MacroKeys(w.log) # {}

\* C12: two consecutive circling macros hold opposite turn keys, the first one
\* D, whatever happens between them; the direction flag changes only in a tick
\* that runs the macro.
C12_DirectionAlternation ==
    /\ [](/\ Len(window.turn) >= 1 => window.turn[1] \in {"D", "A"}
          /\ Len(window.turn) = 1 => window.turn[1] = "D"
          /\ Len(window.turn) = 2 => window.turn[1] # window.turn[2])
    /\ [][ avoid_obstacle_direction' # avoid_obstacle_direction
             => MacroTicked(call', window') ]_vars

\* C12 witness: a third macro ran, holding D again, after a death tick, a buff
\* check or a stop had come between it and the macro before.
C12_Witness ==
    /\ MacroTicked(call, window)
    /\ window.turn = <<"A", "D">>
    /\ window.kept = {} /\ window.sent # <<>>

\* the configured obstacle-avoidance grace period, 0 ms when unset
GraceOf ==
    IF config.obstacle_avoidance_cooldown = None THEN 0
    ELSE config.obstacle_avoidance_cooldown[1]

\* the snapshot shows a living target whose marker is farther than 200
FarPath(image) ==
    /\ image.target_hp > 0
    /\ image.target_marker # None
    /\ image.target_marker[1] > 200

\* the snapshot shows a living target and no marker
NoMarkerPath(image) == image.target_hp > 0 /\ image.target_marker = None

\* the movement commands of a log: everything but slot triggers
KeyCmds(log) == { j \in 1 .. Len(log) : log[j][1] # "slot" }

\* C13 as stated: with a grace period of 0 ms, the first far tick (far_since
\* was None and is set in the tick) runs the circling macro in that same tick
\* and flips the turn direction.
C13_MacroOnFirstFarTick ==
    [][ ( /\ GraceOf = 0
          /\ Ticked(call') /\ FarPath(call'.image)
          /\ last_far_from_target = None )
          => /\ MacroKeys(window'.log) # {}
             /\ avoid_obstacle_direction' # avoid_obstacle_direction ]_vars

\* C13 amended: with a grace period of 0 ms, the first far tick sets far_since
\* to now, issues no movement command and keeps the turn direction; the tick
\* after it that finds the target far or without marker, far_since still set,
\* runs the macro and flips the direction.
C13_MacroOnNextFarTick ==
    [][ ( GraceOf = 0 /\ Ticked(call') ) =>
          /\ ( FarPath(call'.image) /\ last_far_from_target = None )
                => /\ KeyCmds(window'.log) = {}
                   /\ avoid_obstacle_direction' = avoid_obstacle_direction
                   /\ last_far_from_target' = Some(0)
          /\ ( (FarPath(call'.image) \/ NoMarkerPath(call'.image))
                /\ last_far_from_target # None )
                => /\ MacroKeys(window'.log) = { avoid_obstacle_direction }
                   /\ avoid_obstacle_direction' # avoid_obstacle_direction ]_vars

\* C13 witness: with the grace period at 0, a first far tick has just set
\* far_since, after earlier macros had left the direction at A.
C13_Witness ==
    /\ GraceOf = 0
    /\ Ticked(call) /\ FarPath(call.image)
    /\ last_far_from_target = Some(0)
    /\ avoid_obstacle_direction = "A"

\* the configured inter-buff interval, 2000 ms when unset
IntervalOf ==
    IF config.interval_between_buffs = None THEN 2000
    ELSE config.interval_between_buffs[1]

\* the smallest element of a non-empty set of numbers
Least(S) == CHOOSE x \in S : \A y \in S : x <= y

\* the time since the latest dispatch of a BuffSkill slot the actuator w has
\* seen, the time since the behavior was constructed if it has seen none
SinceLastBuff(w) ==
    LET ages == { w.sent[p] : p \in { q \in DOMAIN w.sent : SlotAt(q).slot_type = "BuffSkill" } }
    IN  IF ages = {} THEN w.born ELSE Least(ages)

\* C14: a tick dispatches a BuffSkill slot only if, at its buff check (the
\* pacing delay of the tick after its start), the time since the previous
\* buff dispatch, or since the behavior was constructed, is >= the inter-buff
\* interval; after the tick the last-buff timer is as old as the dispatch.
C14_BuffGating ==
    [][ ( Ticked(call') /\ DispatchedOf(window'.log, "BuffSkill") # {} ) =>
          /\ Older(SinceLastBuff(window), PacingDelay) >= IntervalOf
          /\ \A p \in DispatchedOf(window'.log, "BuffSkill") :
                last_buff_usage' = window'.sent[p] ]_vars

\* C14 witness: a tick dispatched a BuffSkill slot after another BuffSkill slot
\* had been dispatched earlier in the session.
C14_Witness ==
    /\ Ticked(call)
    /\ DispatchedOf(window.log, "BuffSkill") # {}
    /\ \E q \in DOMAIN window.sent :
          /\ q \notin Dispatched(window.log)
          /\ SlotAt(q).slot_type = "BuffSkill"

\* C15: after stop() no cooldown entry is present and no far timer is set.
C15_StopResetsBoth ==
    call.op = "stop" =>
        /\ \A p \in Positions : Entry(slots_usage_last_time, p) = None
        /\ last_far_from_target = None

\* the snapshot shows the marker at a distance of at most 200
MarkerNear(image) == image.target_marker # None /\ image.target_marker[1] <= 200

\* C16 as stated: after every tick that sees the marker at distance <= 200
\* far_since is None; far_since is set only by a tick on the far path, to the
\* time of that tick, and a later far tick does not refresh it.
C16_ResetWhenMarkerNear ==
    [][ /\ ( Ticked(call') /\ MarkerNear(call'.image) ) => last_far_from_target' = None
        /\ ( last_far_from_target = None /\ last_far_from_target' # None )
              => /\ Ticked(call') /\ FarPath(call'.image)
                 /\ last_far_from_target' = Some(0)
        /\ ( Ticked(call') /\ FarPath(call'.image) /\ last_far_from_target # None )
              => /\ last_far_from_target' # None
                 /\ last_far_from_target'[1] >= Older(last_far_from_target[1], PacingDelay) ]_vars

\* C16 amended: after every tick that sees target HP > 0 and the marker at
\* distance <= 200 far_since is None; far_since is set only by a tick on the
\* far path, to the time of that tick, and a later far tick does not refresh it.
C16_ResetWhenTargetNear ==
    [][ /\ ( Ticked(call') /\ call'.image.target_hp > 0 /\ MarkerNear(call'.image) )
              => last_far_from_target' = None
        /\ ( last_far_from_target = None /\ last_far_from_target' # None )
              => /\ Ticked(call') /\ FarPath(call'.image)
                 /\ last_far_from_target' = Some(0)
        /\ ( Ticked(call') /\ FarPath(call'.image) /\ last_far_from_target # None )
              => /\ last_far_from_target' # None
                 /\ last_far_from_target'[1] >= Older(last_far_from_target[1], PacingDelay) ]_vars

\* C16 witness: a tick that saw the living target near left far_since at None
\* in a session whose far timer had been set long enough for a macro to run.
C16_Witness ==
    /\ Ticked(call)
    /\ call.image.target_hp > 0 /\ MarkerNear(call.image)
    /\ last_far_from_target = None
    /\ window.turn # <<>>

\* C16, the other case: a far tick found the far timer set and kept it.
C16_WitnessKept ==
    /\ Ticked(call) /\ FarPath(call.image)
    /\ MacroKeys(window.log) = {}
    /\ last_far_from_target # None
    /\ last_far_from_target # Some(0)

\* the movement commands of a log, in order
KeySeq(log) == SelectSeq(log, LAMBDA c : c[1] # "slot")

\* the log holds the probe, one press of Z, and no other movement command
ProbeOnly(log) ==
    /\ Len(KeySeq(log)) = 1
    /\ KeySeq(log)[1][1] = "PressKey" /\ KeySeq(log)[1][2] = "Z"

\* the time the circling macro blocks
MacroTime == 200 + 500 + 50 + 300

\* far_since as avoid_obstacle finds it in a tick: after the pacing delay and,
\* on the far path, after the tick has set an absent timer
FarSeen(image, far) ==
    IF far # None THEN Some(Older(far[1], PacingDelay))
    ELSE IF FarPath(image) THEN Some(0)
    ELSE None

\* C18: in a tick that evaluates obstacle avoidance (living target, marker far
\* or absent) the circling macro runs exactly when far_since is present and
\* older than the grace period; when it is present and not older, no movement
\* command is issued; the probe, one press of Z, is issued exactly when
\* far_since is None, which happens on the no-marker path only; and the
\* evaluation leaves far_since the Instant it found.
C18_AvoidObstacle ==
    [][ ( Ticked(call') /\ (FarPath(call'.image) \/ NoMarkerPath(call'.image)) ) =>
          LET seen == FarSeen(call'.image, last_far_from_target)
              log == window'.log
              circled == MacroKeys(log) # {}
          IN  /\ circled <=> ( seen # None /\ seen[1] > GraceOf )
              /\ ( seen # None /\ seen[1] <= GraceOf ) => KeySeq(log) = <<>>
              /\ ProbeOnly(log) <=> seen = None
              /\ seen = None => NoMarkerPath(call'.image)
              /\ last_far_from_target' =
                    IF circled THEN OlderOpt(seen, MacroTime) ELSE seen ]_vars

\* C18 witness: with a grace period of 200 ms, a far tick found far_since set
\* exactly 200 ms ago and issued nothing.
C18_Witness ==
    /\ Ticked(call) /\ FarPath(call.image)
    /\ GraceOf = 200
    /\ last_far_from_target = Some(200)
    /\ window.log = <<>>

\* C18, the other cases: a tick without marker ran the macro on a far timer
\* left by an earlier tick; a tick without marker pressed the probe key.
C18_WitnessMacro ==
    /\ Ticked(call) /\ NoMarkerPath(call.image)
    /\ MacroKeys(window.log) # {}

C18_WitnessProbe ==
    /\ Ticked(call) /\ NoMarkerPath(call.image)
    /\ ProbeOnly(window.log)
    /\ last_far_from_target = None
    /\ window.turn # <<>>

\* the snapshot shows a living target whose marker is at most 200 away
NearPath(image) == image.target_hp > 0 /\ MarkerNear(image)

\* the behavior's last-buff timer as the buff check of a tick reads it
BuffTimerSeen == Older(last_buff_usage, PacingDelay)

\* C19: when the buff check of a tick finds the last-buff timer older than the
\* interval, the timer restarts at that moment whether or not a BuffSkill slot
\* is dispatched (it is one pacing delay old when the tick ends); a check that
\* finds it not older leaves the timer alone and dispatches nothing, so a
\* missed buff is not retried before the interval has elapsed again.
C19_TimerRestartsWithoutDispatch ==
    [][ ( Ticked(call') /\ NearPath(call'.image) ) =>
          IF BuffTimerSeen > IntervalOf
          THEN last_buff_usage' = PacingDelay
          ELSE /\ last_buff_usage' = BuffTimerSeen
               /\ DispatchedOf(window'.log, "BuffSkill") = {} ]_vars

\* C19 witness: a buff check restarted the timer and dispatched nothing,
\* because the enabled BuffSkill slot of the grid was still on cooldown.
C19_Witness ==
    /\ Ticked(call) /\ NearPath(call.image)
    /\ last_buff_usage = PacingDelay /\ window.born > PacingDelay
    /\ window.log = <<>>
    /\ \E q \in Positions :
          /\ SlotAt(q).slot_type = "BuffSkill" /\ SlotAt(q).slot_enabled
          /\ Entry(slots_usage_last_time, q) # None

\* C19, the other case: the only BuffSkill slot of the grid is disabled.
C19_WitnessDisabled ==
    /\ Ticked(call) /\ NearPath(call.image)
    /\ last_buff_usage = PacingDelay /\ window.born > PacingDelay
    /\ window.log = <<>>
    /\ \E q \in Positions : SlotAt(q).slot_type = "BuffSkill"
    /\ \A q \in Positions : SlotAt(q).slot_type = "BuffSkill" => ~SlotAt(q).slot_enabled

-----------------------------------------------------------------------------
(* The order of the steps of a tick: SpecOrder *)

RestorerTypes == { "Pill", "Food", "HealSkill", "MpRestorer", "FpRestorer" }

\* the command triggers a slot the restoration pass asks for
IsRestorerCmd(cmd) ==
    cmd[1] = "slot" /\ SlotAt(<<cmd[2], cmd[3]>>).slot_type \in RestorerTypes

\* the command comes from the engagement branch: a key command or a buff
IsEngageCmd(cmd) ==
    cmd[1] # "slot" \/ SlotAt(<<cmd[2], cmd[3]>>).slot_type = "BuffSkill"

\* C17: in a tick the sweep runs first (a slot whose cooldown has run out at
\* the start of the tick is dispatched in that tick when its type is asked
\* for, and no slot is dispatched whose entry the sweep leaves present), then
\* the death check (a death tick issues nothing but the rez trigger), then the
\* restoration pass, then the engagement branch (no restorer command follows a
\* command of the engagement branch); no position is triggered twice.
C17_TickOrder ==
    [][ Ticked(call') =>
          LET log == window'.log
              image == call'.image
              free(p) == \/ Entry(slots_usage_last_time, p) = None
                         \/ Entry(slots_usage_last_time, p)[1] > CooldownOf(p)
          IN  /\ \A p \in Dispatched(log) : free(p)
              /\ DeathWithMarker(image) =>
                    /\ log \in RezOnlyLogs
                    /\ (\E q \in Positions :
                            EligibleAfterSweep(q, "RezSkill", None, slots_usage_last_time))
                          => log # <<>>
              /\ ( ~DeathWithMarker(image) /\ image.hp > 0
                      /\ \E q \in Positions :
                            EligibleAfterSweep(q, "Pill", Some(image.hp), slots_usage_last_time) )
                    => ( log # <<>> /\ log[1][1] = "slot"
                         /\ SlotAt(<<log[1][2], log[1][3]>>).slot_type = "Pill" )
              /\ \A i, j \in 1 .. Len(log) :
                    ( i < j /\ IsEngageCmd(log[i]) ) => ~IsRestorerCmd(log[j])
              /\ \A i, j \in 1 .. Len(log) :
                    ( i < j /\ log[i][1] = "slot" /\ log[j][1] = "slot" )
                        => <<log[i][2], log[i][3]>> # <<log[j][2], log[j][3]>> ]_vars

\* C17 witness: a tick dispatched a Pill slot again, its cooldown run out, and
\* then a BuffSkill slot.
C17_Witness ==
    /\ Ticked(call)
    /\ Len(window.log) = 2
    /\ IsRestorerCmd(window.log[1])
    /\ IsEngageCmd(window.log[2]) /\ window.log[2][1] = "slot"
    /\ <<window.log[1][2], window.log[1][3]>> \in DOMAIN window.gap

-----------------------------------------------------------------------------
(* Ticks that keep coming: SpecLive *)

\* C20: as ticks keep being run, every present entry of the cooldown matrix is
\* eventually cleared: the entry is absent after a later step, or a later tick
\* has dispatched the slot again, which it can only do on a cleared entry.
C20_EventuallyCleared ==
    \A p \in Positions :
        ( Entry(slots_usage_last_time, p) # None )
            ~> ( \/ Entry(slots_usage_last_time, p) = None
                 \/ (Ticked(call) /\ p \in DOMAIN window.gap) )

\* C20 witness: the sweep of a tick cleared the entry of a slot dispatched
\* earlier, no bulk reset having come in between.
C20_Witness ==
    /\ Ticked(call) /\ ~DeathWithMarker(call.image)
    /\ \E p \in DOMAIN window.sent :
          /\ p \in window.kept
          /\ Entry(slots_usage_last_time, p) = None

-----------------------------------------------------------------------------
(* The keys of the circling macro: SpecEngage *)

\* the movement commands are those of one circling macro that turns with key
\* dir: hold W, Space and dir; release dir; release Space and W; hold S for
\* 50 ms; press Z
IsMacroWith(keys, dir) ==
    /\ Len(keys) = 5
    /\ keys[1][1] = "HoldKeys" /\ keys[1][2] = <<"W", "Space", dir>>
    /\ keys[2][1] = "ReleaseKey" /\ keys[2][2] = dir
    /\ keys[3][1] = "ReleaseKeys" /\ keys[3][2] = <<"Space", "W">>
    /\ keys[4][1] = "HoldKeyFor" /\ keys[4][2] = "S"
    /\ keys[5][1] = "PressKey" /\ keys[5][2] = "Z"

\* C21: no key is held between two calls; a tick that runs the circling macro
\* issues the whole sequence with the turn key the direction flag named before
\* the tick, in the hold of step 1 and in the release of step 2 alike, holds
\* that key, W and Space in between, and leaves the flag flipped.
C21_NoKeyHeld ==
    /\ [](HeldAt(window.log, Len(window.log)) = {})
    /\ [][ MacroTicked(call', window') =>
             LET keys == KeySeq(window'.log)
             IN  /\ IsMacroWith(keys, avoid_obstacle_direction)
                 /\ HeldAt(keys, 1) = { "W", "Space", avoid_obstacle_direction }
                 /\ HeldAt(keys, 2) = { "W", "Space" }
                 /\ avoid_obstacle_direction' # avoid_obstacle_direction ]_vars

\* C21 witness: a second macro has run, with A held and released, and no key
\* is held after it.
C21_Witness ==
    /\ MacroTicked(call, window)
    /\ window.turn = <<"D", "A">>
    /\ avoid_obstacle_direction = "D"
    /\ HeldAt(window.log, Len(window.log)) = {}

=============================================================================
